---- MODULE Spec2Model ----
(***************************************************************************)
(* SQLite-backed key-value stores of key_value.aio.stores.disk:            *)
(* DiskStore (one shared database, compound keys) and MultiDiskStore (one  *)
(* database per collection), with TTL expiry and size-bounded eviction.    *)
(*                                                                         *)
(* Text (keys, values, collection names, path segments) is a sequence of   *)
(* one-character strings, so that LENGTH() and concatenation are computed. *)
(* A table is the sequence of its rows in ascending rowid order: the code  *)
(* reads rowid only through ORDER BY rowid ASC.                            *)
(***************************************************************************)
EXTENDS Integers, Sequences, FiniteSets, TLC

VARIABLES
    now,          \* time.time(), in whole seconds
    fs,           \* the directories that exist
    conns,        \* every sqlite3.Connection made so far: id -> [state, db, by]
    tables,       \* database file (its directory) -> rows of its kv table
    store,        \* the store object: its attributes and lifecycle position
    pc,           \* position inside the running _put_managed_entry
    total_size,   \* _sqlite_evict's local total_size
    cur,          \* the connection the running _sqlite_evict works on (<<>>: none)
    ret,          \* the last call and what it returned or raised
    last_set,     \* history: the most recent _sqlite_set, while its row survives
    written       \* history: (collection, key) -> what the caller last put there

vars == <<now, fs, conns, tables, store, pc, total_size, cur, ret, last_set, written>>

\* Optional values: Python's None is the empty sequence, a present value x
\* is <<x>>.
None == <<>>
Some(x) == <<x>>

\* ---------------------------------------------------------------- bounds

\* The clock stops advancing at MaxTime.
MaxTime == 2

\* ---------------------------------------------------------------- inputs

Sep == <<":", ":">>
Collections == {<<"a">>, <<"b">>, <<"c", "c">>}
Keys == {<<"k">>}
Values == {<<"v">>, <<"w", "w">>}
TTLs == {None, Some(1)}
MaxSizes == {None, Some(5), Some(12)}

\* Paths are sequences of segments and a segment is text; "" and the root
\* are the empty path.
P == <<"p">>
D == <<"d">>
X == <<"x">>
Directories == {<<P>>, <<P, D>>}
\* The database behind the caller's own connection, and Path.cwd().
ExtDb == <<X>>
Cwd == <<>>

\* Names of the connection objects: the caller's own, the one DiskStore
\* makes for itself, and the one MultiDiskStore holds for a collection.
ExtConn == <<"ext">>
OwnConn == <<"own">>
CollConn(collection) == <<"of", collection>>
NoConn == <<>>

\* ---------------------------------------------------------------- helpers

Max(a, b) == IF a >= b THEN a ELSE b
Min(a, b) == IF a <= b THEN a ELSE b

RECURSIVE SumSizes(_)
\* SUM(LENGTH(key) + LENGTH(value)) over the rows of a table; 0 when empty
\* (the COALESCE of the query).
SumSizes(t) ==
    IF t = <<>> THEN 0
    ELSE Len(t[1].key) + Len(t[1].value) + SumSizes(Tail(t))

KeysOf(t) == {t[i].key : i \in 1..Len(t)}
RowOf(t, key) == t[CHOOSE i \in 1..Len(t) : t[i].key = key]

\* key_value.shared.compound.compound_key: collection + "::" + key.
compound_key(collection, key) == collection \o Sep \o key

\* ---------------------------------------------------------------- SQL

\* A read that selects the value only and reports no expire_at.
sqlite_get_value_only(t, key) ==
    IF key \in KeysOf(t) THEN <<Some(RowOf(t, key).value), None>>
    ELSE <<None, None>>

\* SELECT value, expire_at FROM kv WHERE key = ?; (None, None) for no row.
sqlite_get_with_expire(t, key) ==
    IF key \notin KeysOf(t) THEN <<None, None>>
    ELSE <<Some(RowOf(t, key).value), RowOf(t, key).expire_at>>

\* INSERT OR REPLACE with expire_at = expire, the time of the call left out.
sqlite_set_relative(t, key, value, expire, time) ==
    Append(SelectSeq(t, LAMBDA r : r.key # key),
           [key |-> key, value |-> value, expire_at |-> expire])

\* An upsert that merges: without a new expire the old expire_at is kept.
sqlite_set_merging(t, key, value, expire, time) ==
    LET old == IF key \in KeysOf(t) THEN RowOf(t, key).expire_at ELSE None
        expire_at == IF expire # None THEN Some(time + expire[1]) ELSE old
    IN  Append(SelectSeq(t, LAMBDA r : r.key # key),
               [key |-> key, value |-> value, expire_at |-> expire_at])

\* An upsert that updates an existing row where it stands (ON CONFLICT DO
\* UPDATE), the rowid kept.
sqlite_set_in_place(t, key, value, expire, time) ==
    LET expire_at == IF expire # None THEN Some(time + expire[1]) ELSE None
        row == [key |-> key, value |-> value, expire_at |-> expire_at]
    IN  IF key \in KeysOf(t)
        THEN [i \in 1..Len(t) |-> IF t[i].key = key THEN row ELSE t[i]]
        ELSE Append(t, row)

\* INSERT OR REPLACE: the conflicting row is deleted and the new row gets
\* rowid max(rowid)+1, i.e. it becomes the last row in rowid order.
sqlite_set(t, key, value, expire, time) ==
    LET expire_at == IF expire # None THEN Some(time + expire[1]) ELSE None
    IN  Append(SelectSeq(t, LAMBDA r : r.key # key),
               [key |-> key, value |-> value, expire_at |-> expire_at])

\* A delete that reports success whether or not a row was there.
sqlite_delete_reports_true(t, key) ==
    <<SelectSeq(t, LAMBDA r : r.key # key), TRUE>>

\* DELETE FROM kv WHERE key = ?; returns <<table, rowcount > 0>>.
sqlite_delete(t, key) ==
    <<SelectSeq(t, LAMBDA r : r.key # key), key \in KeysOf(t)>>

\* DELETE FROM kv; returns <<table, rowcount>>.
sqlite_clear(t) == <<(<<>>), Len(t)>>

\* The purge with "<=" for "<": a row expiring at this very time goes too.
evict_expired_inclusive(t, time) ==
    SelectSeq(t, LAMBDA r : ~(r.expire_at # None /\ r.expire_at[1] <= time))

\* DELETE FROM kv WHERE expire_at IS NOT NULL AND expire_at < time
evict_expired(t, time) ==
    SelectSeq(t, LAMBDA r : ~(r.expire_at # None /\ r.expire_at[1] < time))

\* The batch size without max(1, ...): nothing is deleted below ten rows.
to_delete_floor(total_rows) == total_rows \div 10

\* A trim of one row per iteration, whatever the row count.
to_delete_one(total_rows) == 1

\* to_delete = max(1, total_rows // 10)
to_delete(total_rows) == Max(1, total_rows \div 10)

\* The trim with DESC for ASC: the n newest rows go.
evict_newest(t, n) == SubSeq(t, 1, Len(t) - Min(n, Len(t)))

\* DELETE ... WHERE rowid IN (SELECT rowid FROM kv ORDER BY rowid ASC LIMIT n)
evict_oldest(t, n) == SubSeq(t, Min(n, Len(t)) + 1, Len(t))

\* The database the running _sqlite_evict works on.
cur_db == conns[cur].db

\* conn.close(): closing a closed connection is accepted by sqlite3.
sqlite_close(cs, c) == [cs EXCEPT ![c].state = "closed"]

\* _create_connection: a new open connection, named c, on the file in
\* directory db, made by the store itself.
create_connection(cs, c, db) ==
    (c :> [state |-> "open", db |-> db, by |-> "store"]) @@ cs

\* CREATE TABLE IF NOT EXISTS kv, on the file in directory db.
create_table(ts, db) ==
    IF db \in DOMAIN ts THEN ts ELSE (db :> <<>>) @@ ts

\* Path.exists() and Path.mkdir(parents=True, exist_ok=True); the root exists.
exists(dirs, d) == d = <<>> \/ d \in dirs
mkdir(dirs, d) == dirs \cup {SubSeq(d, 1, i) : i \in 1..Len(d)}

\* ---------------------------------------------------------------- store

\* A store object before __init__ ran: no attribute is assigned. attrs holds
\* the names of the attributes assigned so far; a field outside attrs keeps
\* the filler below and is never read by the code. conn is DiskStore's
\* _conn (a connection id), conn_of is MultiDiskStore's _conn (a dict from
\* collection to connection id). setup_done and exit_stack are the base
\* class's; torn_down is history: the exit stack was unwound at least once.
NewStore(kind) ==
    [kind |-> kind, phase |-> "new", attrs |-> {},
     client_provided_by_user |-> FALSE, auto_create |-> FALSE,
     max_size |-> None, conn |-> NoConn,
     base_directory |-> <<>>, factory |-> "default", conn_of |-> <<>>,
     setup_done |-> FALSE, torn_down |-> FALSE, exit_stack |-> <<>>]

NoCall == [op |-> "none"]

\* The record of a constructor call: what it was given (how many of the two
\* connection sources, auto_create, whether the directory argument named a
\* directory that did not exist) and whether it raised.
InitCall(raised, sources, auto_create, missing) ==
    [op |-> "init", raised |-> raised, sources |-> sources,
     auto_create |-> auto_create, missing |-> missing]

\* How many of two optional arguments were supplied.
Supplied(x, y) == (IF x # None THEN 1 ELSE 0) + (IF y # None THEN 1 ELSE 0)

\* The record of a put: where the row went, whether the row it replaced had
\* an expire_at (None if the key was new), and how many rows its eviction
\* pass has purged as expired and trimmed as oldest so far.
PutCall(collection, key, db, pkey, t) ==
    [op |-> "put", collection |-> collection, key |-> key, db |-> db,
     pkey |-> pkey,
     replaced |-> IF pkey \in KeysOf(t)
                  THEN Some(RowOf(t, pkey).expire_at # None) ELSE None,
     purged |-> 0, trimmed |-> 0]
NoSet == [live |-> FALSE]

\* The history of the last _sqlite_set is dropped once its row is gone.
Track(ls, ts) ==
    IF ls.live /\ ls.pkey \in KeysOf(ts[ls.db]) THEN ls ELSE NoSet

\* History of the caller's puts: put(collection, key, ...) records what was
\* written and under which database and row key it was stored.
Written(w, collection, key, db, pkey, value, ttl, time) ==
    (<<collection, key>> :> [db |-> db, pkey |-> pkey, value |-> value,
                             ttl |-> ttl, time |-> time,
                             evicted |-> FALSE]) @@ w

\* delete(collection, key) forgets the entry.
Forget(w, collection, key) ==
    [p \in DOMAIN w \ {<<collection, key>>} |-> w[p]]

\* An eviction pass took the table of db from t to t2: the entries whose row
\* it removed are marked, and what they held is forgotten.
Evicted(w, db, t, t2) ==
    [p \in DOMAIN w |->
        IF w[p].db = db /\ w[p].pkey \in KeysOf(t) \ KeysOf(t2)
        THEN [w[p] EXCEPT !.evicted = TRUE, !.value = <<>>, !.ttl = None, !.time = 0]
        ELSE w[p]]

\* The test with ">= 0" for "> 0": a bound of zero evicts too.
eviction_enabled_from_zero(st) == st.max_size # None /\ st.max_size[1] >= 0

\* max_size is not None and max_size > 0
eviction_enabled(st) == st.max_size # None /\ st.max_size[1] > 0

\* ---------------------------------------------------------------- DiskStore

\* DiskStore.__init__. connection is None or Some(connection id); directory
\* is None or Some(path), and Some(<<>>) is the empty string.
DiskStore_init(connection, directory, max_size, auto_create) ==
    /\ store.kind = "DiskStore"
    /\ store.phase = "new"
    /\ pc = "idle"
    /\ LET call(raised) ==
               InitCall(raised, Supplied(connection, directory), auto_create,
                        directory # None /\ ~exists(fs, directory[1]))
           raise(st) ==
               /\ store' = [st EXCEPT !.phase = "failed"]
               /\ ret' = call("ValueError")
               /\ UNCHANGED <<fs, conns, tables>>
           st1 == [store EXCEPT
                      !.attrs = {"_client_provided_by_user", "_auto_create", "_max_size"},
                      !.client_provided_by_user = (connection # None),
                      !.auto_create = auto_create,
                      !.max_size = max_size]
           ready(st) ==
               /\ store' = [st EXCEPT !.phase = "ready"]
               /\ ret' = call("no")
       IN  IF connection # None /\ directory # None THEN raise(store)
           ELSE IF connection = None /\ directory = None THEN raise(store)
           ELSE IF connection # None THEN
               /\ ready([st1 EXCEPT !.attrs = @ \cup {"_conn"}, !.conn = connection[1]])
               /\ UNCHANGED <<fs, conns, tables>>
           ELSE IF directory[1] # <<>> THEN
               IF ~exists(fs, directory[1]) /\ ~auto_create THEN raise(st1)
               ELSE
                   /\ fs' = IF exists(fs, directory[1]) THEN fs ELSE mkdir(fs, directory[1])
                   /\ conns' = create_connection(conns, OwnConn, directory[1])
                   /\ tables' = create_table(tables, directory[1])
                   /\ ready([st1 EXCEPT !.attrs = @ \cup {"_conn"}, !.conn = OwnConn])
           ELSE
               /\ ready(st1)
               /\ UNCHANGED <<fs, conns, tables>>
    /\ UNCHANGED <<now, pc, total_size, cur, last_set, written>>

\* _setup registering the close callback whoever made the connection.
DiskStore_setup_always(st) == [st EXCEPT !.exit_stack = Append(@, "close")]

\* DiskStore._setup: register the close callback if the store owns the connection.
DiskStore_setup(st) ==
    IF ~st.client_provided_by_user
    THEN [st EXCEPT !.exit_stack = Append(@, "close")]
    ELSE st


\* BaseStore.setup(): _setup runs once, before the first use.
DiskStore_ensure_setup(st) ==
    IF st.setup_done THEN st
    ELSE [DiskStore_setup(st) EXCEPT !.setup_done = TRUE]

\* An operation can run: the object is constructed, no other call is running.
DiskStore_callable ==
    /\ store.kind = "DiskStore"
    /\ store.phase = "ready"
    /\ pc = "idle"

\* The operation reaches the database: _conn is assigned and not closed.
DiskStore_conn_usable ==
    /\ "_conn" \in store.attrs
    /\ conns[store.conn].state = "open"

\* An explicit await store.setup() (or entering the context manager).
DiskStore_setup_call ==
    /\ DiskStore_callable
    /\ ~store.setup_done
    /\ store' = DiskStore_ensure_setup(store)
    /\ ret' = [op |-> "setup", raised |-> "no"]
    /\ UNCHANGED <<now, fs, conns, tables, pc, total_size, cur, last_set, written>>

\* DiskStore._get_managed_entry, up to the text read from the database.
DiskStore_get_managed_entry(key, collection) ==
    /\ DiskStore_callable
    /\ DiskStore_conn_usable
    /\ LET combo_key == compound_key(collection, key)
           db == conns[store.conn].db
       IN  ret' = [op |-> "get", collection |-> collection, key |-> key,
                   db |-> db, pkey |-> combo_key,
                   out |-> sqlite_get_with_expire(tables[db], combo_key)]
    /\ store' = DiskStore_ensure_setup(store)
    /\ UNCHANGED <<now, fs, conns, tables, pc, total_size, cur, last_set, written>>

\* DiskStore._put_managed_entry from its second statement on: _sqlite_set
\* under combo_key, then _sqlite_evict when a positive max_size is
\* configured. value is the text dump_json produced.
DiskStore_put_under(combo_key, key, collection, value, ttl) ==
    /\ DiskStore_callable
    /\ DiskStore_conn_usable
    /\ LET db == conns[store.conn].db
           after_set == sqlite_set(tables[db], combo_key, value, ttl, now)
       IN  /\ tables' = [tables EXCEPT ![db] = after_set]
           /\ ret' = PutCall(collection, key, db, combo_key, tables[db])
           /\ last_set' = [live |-> TRUE, collection |-> collection, key |-> key,
                           db |-> db, pkey |-> combo_key,
                           value |-> value, ttl |-> ttl, time |-> now]
           /\ written' = Written(written, collection, key, db, combo_key, value, ttl, now)
    /\ store' = DiskStore_ensure_setup(store)
    /\ IF eviction_enabled(store)
       THEN pc' = "evict" /\ cur' = store.conn
       ELSE pc' = "idle" /\ cur' = NoConn
    /\ UNCHANGED <<now, fs, conns, total_size>>

\* _put_managed_entry storing under the bare key, the collection left out.
DiskStore_put_managed_entry_bare(key, collection, value, ttl) ==
    DiskStore_put_under(key, key, collection, value, ttl)

\* DiskStore._put_managed_entry: combo_key = compound_key(collection, key).
DiskStore_put_managed_entry(key, collection, value, ttl) ==
    DiskStore_put_under(compound_key(collection, key), key, collection, value, ttl)

\* DiskStore._delete_managed_entry
DiskStore_delete_managed_entry(key, collection) ==
    /\ DiskStore_callable
    /\ DiskStore_conn_usable
    /\ LET combo_key == compound_key(collection, key)
           db == conns[store.conn].db
           res == sqlite_delete(tables[db], combo_key)
       IN  /\ tables' = [tables EXCEPT ![db] = res[1]]
           /\ ret' = [op |-> "delete", collection |-> collection, key |-> key,
                      db |-> db, pkey |-> combo_key, out |-> res[2]]
    /\ last_set' = Track(last_set, tables')
    /\ written' = Forget(written, collection, key)
    /\ store' = DiskStore_ensure_setup(store)
    /\ UNCHANGED <<now, fs, conns, pc, total_size, cur>>

\* An operation on a store whose connection is closed (sqlite3 raises
\* ProgrammingError) or was never assigned (AttributeError).
DiskStore_operation_fails ==
    /\ DiskStore_callable
    /\ ~DiskStore_conn_usable
    /\ ret' = [op |-> "operation",
               raised |-> IF "_conn" \in store.attrs THEN "ProgrammingError"
                          ELSE "AttributeError"]
    /\ store' = DiskStore_ensure_setup(store)
    /\ UNCHANGED <<now, fs, conns, tables, pc, total_size, cur, last_set, written>>

\* DiskStore.__del__
DiskStore_del ==
    /\ store.kind = "DiskStore"
    /\ store.phase \in {"ready", "failed"}
    /\ pc = "idle"
    /\ LET provided == IF "_client_provided_by_user" \in store.attrs
                       THEN store.client_provided_by_user ELSE FALSE
       IN  conns' = IF ~provided /\ "_conn" \in store.attrs
                    THEN sqlite_close(conns, store.conn)
                    ELSE conns
    /\ store' = [store EXCEPT !.phase = "dead"]
    /\ ret' = [op |-> "del", raised |-> "no"]
    /\ UNCHANGED <<now, fs, tables, pc, total_size, cur, last_set, written>>

\* ---------------------------------------------------------------- MultiDiskStore

\* pathvalidate.sanitize_filename, on this alphabet: ":" is not allowed in a
\* file name and is removed.
sanitize_collection_for_filesystem(collection) ==
    SelectSeq(collection, LAMBDA ch : ch # ":")

\* MultiDiskStore.__init__. connection_factory is None or Some("custom");
\* base_directory is None or Some(path).
MultiDiskStore_init(connection_factory, base_directory, max_size, auto_create) ==
    /\ store.kind = "MultiDiskStore"
    /\ store.phase = "new"
    /\ pc = "idle"
    /\ LET call(raised) ==
               InitCall(raised, Supplied(connection_factory, base_directory),
                        auto_create,
                        base_directory # None /\ ~exists(fs, base_directory[1]))
       IN
       IF connection_factory = None /\ base_directory = None
       THEN /\ store' = [store EXCEPT !.phase = "failed"]
            /\ ret' = call("ValueError")
       ELSE /\ store' = [store EXCEPT
                   !.phase = "ready",
                   !.attrs = {"_base_directory", "_auto_create", "_max_size",
                              "_connection_factory", "_conn"},
                   !.base_directory = IF base_directory = None THEN Cwd
                                      ELSE base_directory[1],
                   !.auto_create = auto_create,
                   !.max_size = max_size,
                   !.factory = IF connection_factory # None THEN "custom"
                               ELSE "default",
                   !.conn_of = <<>>]
            /\ ret' = call("no")
    /\ UNCHANGED <<now, fs, conns, tables, pc, total_size, cur, last_set, written>>

\* MultiDiskStore._setup: register _sync_close.
MultiDiskStore_setup(st) == [st EXCEPT !.exit_stack = Append(@, "sync_close")]

MultiDiskStore_ensure_setup(st) ==
    IF st.setup_done THEN st
    ELSE [MultiDiskStore_setup(st) EXCEPT !.setup_done = TRUE]

\* default_connection_factory(collection): the directory it works in.
cache_directory(st, collection) ==
    Append(st.base_directory, sanitize_collection_for_filesystem(collection))

\* default_connection_factory without the auto_create check.
default_connection_factory_never_raises(st, dirs, collection) == FALSE

\* default_connection_factory raises instead of returning a connection.
default_connection_factory_raises(st, dirs, collection) ==
    /\ ~exists(dirs, cache_directory(st, collection))
    /\ ~st.auto_create

\* A caller's connection_factory: a fresh connection on a database of the
\* caller's, named after the raw collection, its table created by the caller.
CustomDb(collection) == <<X, collection>>

\* MultiDiskStore._setup_collection does not return a connection.
MultiDiskStore_setup_collection_raises(st, dirs, collection) ==
    /\ st.factory = "default"
    /\ default_connection_factory_raises(st, dirs, collection)

\* MultiDiskStore._setup_collection: self._conn[collection] = factory(collection).
\* Gives <<store, fs, conns, tables>> after it.
MultiDiskStore_setup_collection(st, dirs, cs, ts, collection) ==
    LET db == IF st.factory = "default" THEN cache_directory(st, collection)
              ELSE CustomDb(collection)
        c == CollConn(collection)
        st2 == [st EXCEPT !.conn_of = (collection :> c) @@ @]
    IN  IF st.factory = "default"
        THEN <<st2,
               IF exists(dirs, db) THEN dirs ELSE mkdir(dirs, db),
               create_connection(cs, c, db),
               create_table(ts, db)>>
        ELSE <<st2,
               dirs,
               (c :> [state |-> "open", db |-> db, by |-> "caller"]) @@ cs,
               create_table(ts, db)>>

\* BaseStore: setup() before the first use, setup_collection(collection) the
\* first time the collection is touched. Gives <<store, fs, conns, tables>>.
MultiDiskStore_prepare(collection) ==
    LET st == MultiDiskStore_ensure_setup(store)
    IN  IF collection \in DOMAIN st.conn_of THEN <<st, fs, conns, tables>>
        ELSE MultiDiskStore_setup_collection(st, fs, conns, tables, collection)

MultiDiskStore_callable ==
    /\ store.kind = "MultiDiskStore"
    /\ store.phase = "ready"
    /\ pc = "idle"

\* The collection's connection can be made, or was made and is not closed.
MultiDiskStore_conn_usable(collection) ==
    IF collection \in DOMAIN store.conn_of
    THEN conns[store.conn_of[collection]].state = "open"
    ELSE ~MultiDiskStore_setup_collection_raises(store, fs, collection)

\* An explicit await store.setup().
MultiDiskStore_setup_call ==
    /\ MultiDiskStore_callable
    /\ ~store.setup_done
    /\ store' = MultiDiskStore_ensure_setup(store)
    /\ ret' = [op |-> "setup", raised |-> "no"]
    /\ UNCHANGED <<now, fs, conns, tables, pc, total_size, cur, last_set, written>>

\* MultiDiskStore._get_managed_entry, up to the text read from the database.
MultiDiskStore_get_managed_entry(key, collection) ==
    /\ MultiDiskStore_callable
    /\ MultiDiskStore_conn_usable(collection)
    /\ LET pre == MultiDiskStore_prepare(collection)
           db == pre[3][pre[1].conn_of[collection]].db
       IN  /\ store' = pre[1]
           /\ fs' = pre[2]
           /\ conns' = pre[3]
           /\ tables' = pre[4]
           /\ ret' = [op |-> "get", collection |-> collection, key |-> key,
                      db |-> db, pkey |-> key,
                      out |-> sqlite_get_with_expire(pre[4][db], key)]
    /\ UNCHANGED <<now, pc, total_size, cur, last_set, written>>

\* MultiDiskStore._put_managed_entry
MultiDiskStore_put_managed_entry(key, collection, value, ttl) ==
    /\ MultiDiskStore_callable
    /\ MultiDiskStore_conn_usable(collection)
    /\ LET pre == MultiDiskStore_prepare(collection)
           c == pre[1].conn_of[collection]
           db == pre[3][c].db
           after_set == sqlite_set(pre[4][db], key, value, ttl, now)
       IN  /\ store' = pre[1]
           /\ fs' = pre[2]
           /\ conns' = pre[3]
           /\ tables' = [pre[4] EXCEPT ![db] = after_set]
           /\ ret' = PutCall(collection, key, db, key, pre[4][db])
           /\ last_set' = [live |-> TRUE, collection |-> collection, key |-> key,
                           db |-> db, pkey |-> key,
                           value |-> value, ttl |-> ttl, time |-> now]
           /\ written' = Written(written, collection, key, db, key, value, ttl, now)
           /\ IF eviction_enabled(store)
              THEN pc' = "evict" /\ cur' = c
              ELSE pc' = "idle" /\ cur' = NoConn
    /\ UNCHANGED <<now, total_size>>

\* MultiDiskStore._delete_managed_entry
MultiDiskStore_delete_managed_entry(key, collection) ==
    /\ MultiDiskStore_callable
    /\ MultiDiskStore_conn_usable(collection)
    /\ LET pre == MultiDiskStore_prepare(collection)
           db == pre[3][pre[1].conn_of[collection]].db
           res == sqlite_delete(pre[4][db], key)
       IN  /\ store' = pre[1]
           /\ fs' = pre[2]
           /\ conns' = pre[3]
           /\ tables' = [pre[4] EXCEPT ![db] = res[1]]
           /\ ret' = [op |-> "delete", collection |-> collection, key |-> key,
                      db |-> db, pkey |-> key, out |-> res[2]]
    /\ last_set' = Track(last_set, tables')
    /\ written' = Forget(written, collection, key)
    /\ UNCHANGED <<now, pc, total_size, cur>>

\* An operation whose collection cannot get a connection (ValueError from
\* default_connection_factory) or whose connection is closed (ProgrammingError).
MultiDiskStore_operation_fails(collection) ==
    /\ MultiDiskStore_callable
    /\ ~MultiDiskStore_conn_usable(collection)
    /\ ret' = [op |-> "operation", collection |-> collection,
               raised |-> IF collection \in DOMAIN store.conn_of
                          THEN "ProgrammingError" ELSE "ValueError"]
    /\ store' = MultiDiskStore_ensure_setup(store)
    /\ UNCHANGED <<now, fs, conns, tables, pc, total_size, cur, last_set, written>>

RECURSIVE close_all(_, _)
\* for conn in ...: _sqlite_close(conn=conn), over a set of connection ids.
close_all(cs, ids) ==
    IF ids = {} THEN cs
    ELSE LET c == CHOOSE x \in ids : TRUE
         IN  close_all(sqlite_close(cs, c), ids \ {c})

\* MultiDiskStore._sync_close: close every connection in self._conn.
MultiDiskStore_sync_close(cs, st) ==
    close_all(cs, {st.conn_of[c] : c \in DOMAIN st.conn_of})

\* MultiDiskStore.__del__: _sync_close, which needs self._conn.
MultiDiskStore_del ==
    /\ store.kind = "MultiDiskStore"
    /\ store.phase \in {"ready", "failed"}
    /\ pc = "idle"
    /\ IF "_conn" \in store.attrs
       THEN /\ conns' = MultiDiskStore_sync_close(conns, store)
            /\ ret' = [op |-> "del", raised |-> "no"]
       ELSE /\ conns' = conns
            /\ ret' = [op |-> "del", raised |-> "AttributeError"]
    /\ store' = [store EXCEPT !.phase = "dead"]
    /\ UNCHANGED <<now, fs, tables, pc, total_size, cur, last_set, written>>

\* ---------------------------------------------------------------- teardown

\* BaseContextManagerStore: leaving the context (or close()) unwinds the exit
\* stack, which runs the callback _setup registered and forgets it.
Teardown ==
    /\ store.phase = "ready"
    /\ pc = "idle"
    /\ IF store.exit_stack = <<>>
       THEN /\ conns' = conns
            /\ ret' = [op |-> "teardown", raised |-> "no"]
       ELSE IF store.kind = "MultiDiskStore"
       THEN /\ conns' = MultiDiskStore_sync_close(conns, store)
            /\ ret' = [op |-> "teardown", raised |-> "no"]
       ELSE IF "_conn" \in store.attrs
       THEN /\ conns' = sqlite_close(conns, store.conn)
            /\ ret' = [op |-> "teardown", raised |-> "no"]
       ELSE /\ conns' = conns
            /\ ret' = [op |-> "teardown", raised |-> "AttributeError"]
    /\ store' = [store EXCEPT !.exit_stack = <<>>, !.torn_down = TRUE]
    /\ UNCHANGED <<now, fs, tables, pc, total_size, cur, last_set, written>>

\* ---------------------------------------------------------------- eviction

\* _sqlite_evict, first statement: purge the expired rows, then read the size.
sqlite_evict_purge ==
    /\ pc = "evict"
    /\ LET db == conns[cur].db
           kept == evict_expired(tables[db], now)
       IN  /\ tables' = [tables EXCEPT ![db] = kept]
           /\ total_size' = SumSizes(kept)
           /\ written' = Evicted(written, db, tables[db], kept)
    /\ pc' = "while"
    /\ ret' = [ret EXCEPT !.purged = Len(tables[cur_db]) - Len(tables'[cur_db])]
    /\ last_set' = Track(last_set, tables')
    /\ UNCHANGED <<now, fs, conns, store, cur>>

\* _sqlite_evict with "if" for "while": at most one pass of the loop body.
sqlite_evict_loop_once ==
    /\ pc = "while"
    /\ LET db == conns[cur].db
           total_rows == Len(tables[db])
           kept == evict_oldest(tables[db], to_delete(total_rows))
       IN  IF total_size > store.max_size[1] /\ total_rows # 0
           THEN /\ tables' = [tables EXCEPT ![db] = kept]
                /\ written' = Evicted(written, db, tables[db], kept)
                /\ ret' = [ret EXCEPT !.trimmed = @ + Len(tables[db]) - Len(kept)]
           ELSE UNCHANGED <<tables, written, ret>>
    /\ pc' = "idle"
    /\ cur' = NoConn
    /\ total_size' = 0
    /\ last_set' = Track(last_set, tables')
    /\ UNCHANGED <<now, fs, conns, store>>

\* _sqlite_evict with ">=" for ">": a table exactly at the bound is trimmed.
sqlite_evict_loop_at_bound ==
    /\ pc = "while"
    /\ LET db == conns[cur].db
           total_rows == Len(tables[db])
           kept == evict_oldest(tables[db], to_delete(total_rows))
       IN  IF total_size >= store.max_size[1] /\ total_rows # 0
           THEN /\ tables' = [tables EXCEPT ![db] = kept]
                /\ total_size' = SumSizes(kept)
                /\ written' = Evicted(written, db, tables[db], kept)
                /\ ret' = [ret EXCEPT !.trimmed = @ + Len(tables[db]) - Len(kept)]
                /\ UNCHANGED <<pc, cur>>
           ELSE /\ pc' = "idle"
                /\ cur' = NoConn
                /\ total_size' = 0
                /\ UNCHANGED <<tables, written, ret>>
    /\ last_set' = Track(last_set, tables')
    /\ UNCHANGED <<now, fs, conns, store>>

\* _sqlite_evict with a loop that counts and deletes the rows of the put's
\* own collection only (WHERE key LIKE collection || '::%').
sqlite_evict_loop_own_collection ==
    /\ pc = "while"
    /\ LET db == conns[cur].db
           t == tables[db]
           pre == compound_key(ret.collection, <<>>)
           own == {i \in 1..Len(t) : /\ Len(t[i].key) >= Len(pre)
                                     /\ SubSeq(t[i].key, 1, Len(pre)) = pre}
           n == to_delete(Cardinality(own))
           stay == (1..Len(t)) \ {i \in own : Cardinality({j \in own : j < i}) < n}
           kept == [k \in 1..Cardinality(stay) |->
                       t[CHOOSE i \in stay : Cardinality({j \in stay : j <= i}) = k]]
       IN  IF total_size > store.max_size[1] /\ own # {}
           THEN /\ tables' = [tables EXCEPT ![db] = kept]
                /\ total_size' = SumSizes(kept)
                /\ written' = Evicted(written, db, tables[db], kept)
                /\ ret' = [ret EXCEPT !.trimmed = @ + Len(tables[db]) - Len(kept)]
                /\ UNCHANGED <<pc, cur>>
           ELSE /\ pc' = "idle"
                /\ cur' = NoConn
                /\ total_size' = 0
                /\ UNCHANGED <<tables, written, ret>>
    /\ last_set' = Track(last_set, tables')
    /\ UNCHANGED <<now, fs, conns, store>>

\* _sqlite_evict, one evaluation of the while condition and, when it holds,
\* one pass of the loop body.
sqlite_evict_loop ==
    /\ pc = "while"
    /\ LET db == conns[cur].db
           total_rows == Len(tables[db])
           kept == evict_oldest(tables[db], to_delete(total_rows))
       IN  IF total_size > store.max_size[1] /\ total_rows # 0
           THEN /\ tables' = [tables EXCEPT ![db] = kept]
                /\ total_size' = SumSizes(kept)
                /\ written' = Evicted(written, db, tables[db], kept)
                /\ ret' = [ret EXCEPT !.trimmed = @ + Len(tables[db]) - Len(kept)]
                /\ UNCHANGED <<pc, cur>>
           ELSE /\ pc' = "idle"
                /\ cur' = NoConn
                /\ total_size' = 0
                /\ UNCHANGED <<tables, written, ret>>
    /\ last_set' = Track(last_set, tables')
    /\ UNCHANGED <<now, fs, conns, store>>

\* _sqlite_clear on the store's connection (the test fixtures' maintenance path).
sqlite_clear_call ==
    /\ DiskStore_callable
    /\ DiskStore_conn_usable
    /\ LET db == conns[store.conn].db
           res == sqlite_clear(tables[db])
       IN  /\ tables' = [tables EXCEPT ![db] = res[1]]
           /\ ret' = [op |-> "clear", db |-> db, out |-> res[2]]
           /\ written' = [p \in {q \in DOMAIN written : written[q].db # db} |-> written[p]]
    /\ last_set' = Track(last_set, tables')
    /\ UNCHANGED <<now, fs, conns, store, pc, total_size, cur>>

\* time.time() advances.
Tick ==
    /\ now < MaxTime
    /\ now' = now + 1
    /\ UNCHANGED <<fs, conns, tables, store, pc, total_size, cur, ret, last_set, written>>

\* ---------------------------------------------------------------- Spec

MultiCollections == {<<"a">>, <<"b">>}
MultiKeys == {<<"k">>}
MultiMaxSizes == {Some(0), Some(2)}

\* A DiskStore(directory="p", max_size=m) after construction.
InitDisk ==
    /\ now = 0
    /\ fs = {<<P>>}
    /\ conns = (OwnConn :> [state |-> "open", db |-> <<P>>, by |-> "store"])
    /\ tables = (<<P>> :> <<>>)
    /\ \E m \in MaxSizes :
          store = [NewStore("DiskStore") EXCEPT
                      !.phase = "ready",
                      !.attrs = {"_client_provided_by_user", "_auto_create",
                                 "_max_size", "_conn"},
                      !.auto_create = TRUE, !.max_size = m, !.conn = OwnConn]
    /\ pc = "idle"
    /\ total_size = 0
    /\ cur = NoConn
    /\ ret = NoCall
    /\ last_set = NoSet
    /\ written = <<>>

\* A MultiDiskStore(base_directory="p", max_size=m) after construction.
InitMulti ==
    /\ now = 0
    /\ fs = {<<P>>}
    /\ conns = <<>>
    /\ tables = <<>>
    /\ \E m \in MultiMaxSizes :
          store = [NewStore("MultiDiskStore") EXCEPT
                      !.phase = "ready",
                      !.attrs = {"_base_directory", "_auto_create", "_max_size",
                                 "_connection_factory", "_conn"},
                      !.base_directory = <<P>>,
                      !.auto_create = TRUE, !.max_size = m]
    /\ pc = "idle"
    /\ total_size = 0
    /\ cur = NoConn
    /\ ret = NoCall
    /\ last_set = NoSet
    /\ written = <<>>

\* Either store after construction, its data operations and the clock.
Init == InitDisk \/ InitMulti

Next ==
    \/ \E c \in Collections, k \in Keys :
          \/ DiskStore_get_managed_entry(k, c)
          \/ DiskStore_delete_managed_entry(k, c)
          \/ \E v \in Values, ttl \in TTLs : DiskStore_put_managed_entry(k, c, v, ttl)
    \/ \E c \in MultiCollections, k \in MultiKeys :
          \/ MultiDiskStore_get_managed_entry(k, c)
          \/ MultiDiskStore_delete_managed_entry(k, c)
          \/ \E v \in Values, ttl \in TTLs : MultiDiskStore_put_managed_entry(k, c, v, ttl)
    \/ sqlite_evict_purge
    \/ sqlite_evict_loop
    \/ sqlite_clear_call
    \/ Tick

Spec == Init /\ [][Next]_vars

\* ---------------------------------------------------------------- SpecLife

\* Arguments of the constructors. ExtConn is the caller's own connection,
\* opened before any store exists.
ConnectionArgs == {None, Some(ExtConn)}
DirectoryArgs == {None, Some(<<>>)} \cup {Some(d) : d \in Directories}
FactoryArgs == {None, Some("custom")}
BaseDirectoryArgs == {None, Some(<<P>>)}
LifeMaxSizes == {None, Some(1)}
LifeCollections == {<<"a">>, <<"b">>}
LifeKeys == {<<"k">>}
LifeValues == {<<"v">>}
LifeTTLs == {None}

\* Nothing is constructed yet; the caller holds an open connection.
InitLife ==
    /\ now = 0
    /\ fs \in {{}, {<<P>>}, {<<P>>, <<P, D>>}}
    /\ conns = (ExtConn :> [state |-> "open", db |-> ExtDb, by |-> "caller"])
    /\ tables = (ExtDb :> <<>>)
    /\ store \in {NewStore("DiskStore"), NewStore("MultiDiskStore")}
    /\ pc = "idle"
    /\ total_size = 0
    /\ cur = NoConn
    /\ ret = NoCall
    /\ last_set = NoSet
    /\ written = <<>>

NextLife ==
    \/ \E a \in BOOLEAN, m \in LifeMaxSizes :
          \/ \E c \in ConnectionArgs, d \in DirectoryArgs : DiskStore_init(c, d, m, a)
          \/ \E f \in FactoryArgs, b \in BaseDirectoryArgs : MultiDiskStore_init(f, b, m, a)
    \/ DiskStore_setup_call
    \/ MultiDiskStore_setup_call
    \/ \E k \in LifeKeys, v \in LifeValues, ttl \in LifeTTLs :
          \/ DiskStore_get_managed_entry(k, <<"a">>)
          \/ DiskStore_put_managed_entry(k, <<"a">>, v, ttl)
          \/ DiskStore_delete_managed_entry(k, <<"a">>)
          \/ \E c \in LifeCollections :
                \/ MultiDiskStore_get_managed_entry(k, c)
                \/ MultiDiskStore_put_managed_entry(k, c, v, ttl)
                \/ MultiDiskStore_delete_managed_entry(k, c)
    \/ DiskStore_operation_fails
    \/ \E c \in LifeCollections : MultiDiskStore_operation_fails(c)
    \/ sqlite_evict_purge
    \/ sqlite_evict_loop
    \/ Teardown
    \/ DiskStore_del
    \/ MultiDiskStore_del

SpecLife == InitLife /\ [][NextLife]_vars


\* ---------------------------------------------------------------- SpecEvict

\* A DiskStore(directory="p", max_size=m) whose table already holds many
\* rows, so that a trim pass deletes more than one row (rows // 10 >= 2).
MaxRows == 22
Letters == <<"a", "b", "c", "d", "e", "f", "g", "h", "i", "j", "k", "l", "m",
             "n", "o", "p", "q", "r", "s", "t", "u", "v", "w", "x", "y", "z">>
EvictCollection == <<"a">>
EvictKeys == {<<Letters[1]>>, <<Letters[26]>>}
EvictValues == {<<"v">>, <<"w", "w", "w", "w", "w", "w", "w", "w", "w", "w", "w">>}
EvictTTLs == {None, Some(1)}
RowSize == Len(compound_key(EvictCollection, <<Letters[1]>>)) + 1
EvictMaxSizes == {Some(RowSize * (MaxRows - 2)), Some(RowSize * MaxRows)}

\* The table after put(Letters[i], "v", collection="a") for i = 1..n.
InitialRows(n) ==
    [i \in 1..n |-> [key |-> compound_key(EvictCollection, <<Letters[i]>>),
                     value |-> <<"v">>, expire_at |-> None]]

InitEvict ==
    /\ now = 0
    /\ fs = {<<P>>}
    /\ conns = (OwnConn :> [state |-> "open", db |-> <<P>>, by |-> "store"])
    /\ \E m \in EvictMaxSizes, n \in (MaxRows - 3)..MaxRows :
          /\ RowSize * n <= m[1]
          /\ tables = (<<P>> :> InitialRows(n))
          /\ store = [NewStore("DiskStore") EXCEPT
                         !.phase = "ready",
                         !.attrs = {"_client_provided_by_user", "_auto_create",
                                    "_max_size", "_conn"},
                         !.auto_create = TRUE, !.max_size = m, !.conn = OwnConn,
                         !.setup_done = TRUE, !.exit_stack = <<"close">>]
    /\ pc = "idle"
    /\ total_size = 0
    /\ cur = NoConn
    /\ ret = NoCall
    /\ last_set = NoSet
    /\ written = <<>>

NextEvict ==
    \/ \E k \in EvictKeys, v \in EvictValues, ttl \in EvictTTLs :
          DiskStore_put_managed_entry(k, EvictCollection, v, ttl)
    \/ sqlite_evict_purge
    \/ sqlite_evict_loop
    \/ Tick

SpecEvict == InitEvict /\ [][NextEvict]_vars

\* ---------------------------------------------------------------- SpecRouter

\* A MultiDiskStore(base_directory="p", max_size=m) after construction, used
\* with collection names of which two sanitize to the same directory name.
RouterCollections == {<<"a">>, <<"a", ":">>, <<"b">>}
RouterKeys == {<<"k">>}
RouterValues == {<<"v">>, <<"w", "w">>}
RouterTTLs == {None, Some(1)}

NextRouter ==
    \/ \E c \in RouterCollections, k \in RouterKeys :
          \/ MultiDiskStore_get_managed_entry(k, c)
          \/ MultiDiskStore_delete_managed_entry(k, c)
          \/ \E v \in RouterValues, ttl \in RouterTTLs :
                MultiDiskStore_put_managed_entry(k, c, v, ttl)
    \/ sqlite_evict_purge
    \/ sqlite_evict_loop
    \/ Tick

SpecRouter == InitMulti /\ [][NextRouter]_vars

\* ---------------------------------------------------------------- SpecFair

\* Spec with the scheduling of synchronous code: _put_managed_entry does not
\* await between _sqlite_set and the end of _sqlite_evict, so an eviction
\* pass that has started keeps executing its next statement.
SpecFair ==
    /\ Spec
    /\ WF_vars(sqlite_evict_purge)
    /\ WF_vars(sqlite_evict_loop)

\* ---------------------------------------------------------------- SpecCodec

\* Collection names and keys with ":" at their edges, none holding the
\* separator "::"; a single value and no expiry.
CodecCollections == {<<"a">>, <<"a", ":">>, <<":", "a">>}
CodecKeys == {<<"b">>, <<":", "b">>}
CodecValues == {<<"v">>}

\* A DiskStore(directory="p") after construction: no max_size.
InitCodec ==
    /\ InitDisk
    /\ store.max_size = None

\* The data operations of a DiskStore on those names.
NextCodec ==
    \E c \in CodecCollections, k \in CodecKeys :
        \/ DiskStore_get_managed_entry(k, c)
        \/ DiskStore_delete_managed_entry(k, c)
        \/ \E v \in CodecValues : DiskStore_put_managed_entry(k, c, v, None)

SpecCodec == InitCodec /\ [][NextCodec]_vars

\* ---------------------------------------------------------------- claims

\* Sum of len(key) + len(value) over the rows of a table, by position.
RECURSIVE ApproxSizeUpTo(_, _)
ApproxSizeUpTo(t, n) ==
    IF n = 0 THEN 0
    ELSE ApproxSizeUpTo(t, n - 1) + Len(t[n].key) + Len(t[n].value)
ApproxSize(t) == ApproxSizeUpTo(t, Len(t))

\* The rows of table t stored under key.
RowsUnder(t, key) == {i \in 1..Len(t) : t[i].key = key}

\* now + ttl of a recorded Set, absent without a ttl.
ExpectedExpireAt(set) ==
    IF set.ttl = None THEN None ELSE Some(set.time + set.ttl[1])

\* C1: with a positive max_size, in every state between operations the sum
\* of len(key) + len(value) over the rows of a table is <= max_size, or the
\* table is empty.
C1_SizeBound ==
    (pc = "idle" /\ eviction_enabled(store)) =>
        \A db \in DOMAIN tables :
            \/ ApproxSize(tables[db]) <= store.max_size[1]
            \/ tables[db] = <<>>

\* A put has completed whose eviction pass had to trim and left rows behind.
C1_Witness ==
    /\ pc = "idle"
    /\ ret.op = "put"
    /\ eviction_enabled(store)
    /\ ret.trimmed >= 1
    /\ tables[ret.db] # <<>>

\* C2: a get that follows a Set of the same (collection, key), the row not
\* removed in between, returns exactly the value text that was set, and
\* (time of the Set) + ttl as expire_at, or no expire_at when the Set had no
\* ttl.
C2_RoundTrip ==
    (/\ ret.op = "get"
     /\ last_set.live
     /\ ret.collection = last_set.collection
     /\ ret.key = last_set.key) =>
        ret.out = <<Some(last_set.value), ExpectedExpireAt(last_set)>>

\* A get returned a value set with a ttl at a time other than 0.
C2_Witness ==
    /\ ret.op = "get"
    /\ last_set.live
    /\ ret.collection = last_set.collection
    /\ ret.key = last_set.key
    /\ last_set.ttl # None
    /\ last_set.time >= 1
    /\ ret.out[2] = Some(last_set.time + 1)

\* C3: a key has at most one row per database, and after a Set the one row
\* of its key holds the value and the expire_at of that Set, whatever the row
\* it replaced held.
C3_Overwrite ==
    /\ \A db \in DOMAIN tables :
          \A i, j \in 1..Len(tables[db]) :
              tables[db][i].key = tables[db][j].key => i = j
    /\ last_set.live =>
          LET t == tables[last_set.db]
              rows == RowsUnder(t, last_set.pkey)
          IN  /\ Cardinality(rows) = 1
              /\ \A i \in rows :
                    /\ t[i].value = last_set.value
                    /\ t[i].expire_at = ExpectedExpireAt(last_set)

\* A Set without ttl has just replaced a row that had an expire_at.
C3_Witness ==
    /\ ret.op = "put"
    /\ ret.replaced = Some(TRUE)
    /\ last_set.live
    /\ last_set.ttl = None
    /\ RowOf(tables[ret.db], ret.pkey).expire_at = None

\* What DiskStore's get of (collection, key) reads: the row under
\* collection + "::" + key.
RowKey(collection, key) == collection \o <<":", ":">> \o key

\* C4 as stated: in a DiskStore, every (collection, key) that was put and
\* not deleted since has its own row under collection::key, holding what was
\* put there.
C4_IsolationAsStated ==
    (store.kind = "DiskStore" /\ pc = "idle") =>
        \A p \in DOMAIN written :
            LET t == tables[written[p].db]
                rows == RowsUnder(t, RowKey(p[1], p[2]))
            IN  /\ ~written[p].evicted
                /\ Cardinality(rows) = 1
                /\ \A i \in rows : t[i].value = written[p].value

\* C4, amended: in a DiskStore, every (collection, key) that was put, not
\* deleted since and not removed by an eviction pass has its own row under
\* collection::key, holding the value and expire_at of its own last put; so
\* puts and deletes of one collection leave the rows of another as they were.
C4_Isolation ==
    (store.kind = "DiskStore" /\ pc = "idle") =>
        \A p \in DOMAIN written :
            ~written[p].evicted =>
                LET t == tables[written[p].db]
                    rows == RowsUnder(t, RowKey(p[1], p[2]))
                IN  /\ Cardinality(rows) = 1
                    /\ \A i \in rows :
                          /\ t[i].value = written[p].value
                          /\ t[i].expire_at = ExpectedExpireAt(written[p])

\* Two collections hold different values under the same key, and a delete in
\* a third collection has just completed.
C4_Witness ==
    /\ store.kind = "DiskStore"
    /\ pc = "idle"
    /\ ret.op = "delete"
    /\ ret.out
    /\ \E a, b \in Collections, k \in Keys :
          /\ a # b
          /\ ret.collection \notin {a, b}
          /\ ret.key = k
          /\ <<a, k>> \in DOMAIN written
          /\ <<b, k>> \in DOMAIN written
          /\ ~written[<<a, k>>].evicted
          /\ ~written[<<b, k>>].evicted
          /\ written[<<a, k>>].value # written[<<b, k>>].value

\* C5: a DiskStore constructed with a caller-supplied connection never closes
\* it: in every state, after any operations, teardown and __del__, the
\* connection the caller handed in is open.
C5_CallerConnectionStaysOpen ==
    (/\ store.kind = "DiskStore"
     /\ "_conn" \in store.attrs
     /\ store.client_provided_by_user) =>
        /\ store.conn = ExtConn
        /\ conns[ExtConn].state = "open"
        /\ "close" \notin {store.exit_stack[i] : i \in 1..Len(store.exit_stack)}

\* A DiskStore on the caller's connection was set up, wrote through it, was
\* torn down and then destroyed.
C5_Witness ==
    /\ store.kind = "DiskStore"
    /\ store.client_provided_by_user
    /\ store.conn = ExtConn
    /\ store.setup_done
    /\ store.torn_down
    /\ store.phase = "dead"
    /\ tables[ExtDb] # <<>>

\* C6 as stated: in a MultiDiskStore, no connection that a caller-supplied
\* connection_factory returned is ever closed by the store.
C6_FactoryConnectionsStayOpen ==
    store.kind = "MultiDiskStore" =>
        \A c \in DOMAIN conns :
            conns[c].by = "caller" => conns[c].state = "open"

\* C7 as stated: a constructor given both of its connection sources, or
\* neither, raises and produces no store; given exactly one (and no directory
\* that auto_create=False forbids it to create) it succeeds.
C7_ExactlyOneSource ==
    ret.op = "init" =>
        /\ ret.sources # 1 =>
              (ret.raised = "ValueError" /\ store.phase = "failed")
        /\ (ret.sources = 1 /\ ~(ret.missing /\ ~ret.auto_create)) =>
              (ret.raised = "no" /\ store.phase = "ready")

\* C8 as stated: a constructor given auto_create=False and a directory that
\* does not exist raises, for DiskStore and for MultiDiskStore alike.
C8_FailsAtConstruction ==
    (/\ ret.op = "init"
     /\ ret.sources = 1
     /\ ret.missing
     /\ ~ret.auto_create) =>
        ret.raised = "ValueError"

\* A step is the constructor of the given kind of store.
IsInit(kind) ==
    /\ store.kind = kind
    /\ store.phase = "new"
    /\ store'.phase # "new"

\* A step is a MultiDiskStore operation on a collection that has no
\* connection yet, the default factory in place.
IsFirstUse ==
    /\ store.kind = "MultiDiskStore"
    /\ store.phase = "ready"
    /\ pc = "idle"
    /\ store.factory = "default"
    /\ ret'.op \in {"get", "put", "delete", "operation"}
    /\ ret'.collection \notin DOMAIN store.conn_of

\* Every directory on the way to d, d included.
Prefixes(d) == {SubSeq(d, 1, i) : i \in 1..Len(d)}

\* C8, amended: no step creates a directory unless auto_create is true.
\* DiskStore's constructor, given auto_create=False and a missing directory,
\* raises ValueError and leaves filesystem and connections as they were.
\* MultiDiskStore's constructor never looks at the filesystem: it raises only
\* when neither source is given; with auto_create=False the ValueError comes
\* from the first operation on a collection whose directory is missing, which
\* creates no directory and no connection. With auto_create=True a missing
\* directory is created with all its intermediate directories and the
\* connection is opened.
C8_AutoCreate ==
    [][/\ fs' # fs => (store'.auto_create /\ fs \subseteq fs')
       /\ (IsInit("DiskStore") /\ ret'.missing /\ ~ret'.auto_create) =>
             /\ ret'.raised = "ValueError"
             /\ store'.phase = "failed"
             /\ fs' = fs
             /\ conns' = conns
       /\ (IsInit("DiskStore") /\ ret'.missing /\ ret'.auto_create
                               /\ ret'.sources = 1) =>
             /\ ret'.raised = "no"
             /\ conns'[store'.conn].state = "open"
             /\ conns'[store'.conn].db \notin fs
             /\ Prefixes(conns'[store'.conn].db) \subseteq fs'
       /\ IsInit("MultiDiskStore") =>
             /\ fs' = fs
             /\ conns' = conns
             /\ (ret'.raised = "ValueError") <=> (ret'.sources = 0)
       /\ (IsFirstUse /\ cache_directory(store, ret'.collection) \notin fs) =>
             IF store.auto_create
             THEN /\ ret'.op # "operation"
                  /\ Prefixes(cache_directory(store, ret'.collection)) \subseteq fs'
                  /\ conns'[store'.conn_of[ret'.collection]].state = "open"
             ELSE /\ ret'.op = "operation"
                  /\ ret'.raised = "ValueError"
                  /\ fs' = fs
                  /\ conns' = conns
      ]_vars

\* A MultiDiskStore built with auto_create=False on a base directory that
\* does not exist was constructed, and its first operation raised ValueError.
C8_Witness ==
    /\ store.kind = "MultiDiskStore"
    /\ store.phase = "ready"
    /\ store.factory = "default"
    /\ ~store.auto_create
    /\ <<P>> \notin fs
    /\ store.base_directory = <<P>>
    /\ ret.op = "operation"
    /\ ret.raised = "ValueError"
    /\ DOMAIN store.conn_of = {}

\* A row is expired at a time: its expire_at is set and earlier than it.
IsExpired(row, time) == row.expire_at # None /\ row.expire_at[1] < time

\* C9: the first step of every eviction pass removes from the table exactly
\* the rows whose expire_at is set and earlier than the current time, however
\* the total size compares with the bound; every other row stays as it was,
\* in the same order; the size it then compares with the bound is the size of
\* the rows that stayed; other tables are not touched.
C9_ExpirySweep ==
    [][(pc = "evict" /\ pc' = "while") =>
          LET db == conns[cur].db
              t == tables[db]
              t2 == tables'[db]
              stay == {i \in 1..Len(t) : ~IsExpired(t[i], now)}
          IN  /\ Len(t2) = Cardinality(stay)
              /\ \A i \in stay :
                    t2[Cardinality({j \in stay : j <= i})] = t[i]
              /\ total_size' = ApproxSize(t2)
              /\ \A d \in DOMAIN tables \ {db} : tables'[d] = tables[d]
      ]_vars

\* The sweep of a put removed an expired row although what was left was
\* within the bound, and kept a row that expires exactly now.
C9_Witness ==
    /\ pc = "while"
    /\ ret.op = "put"
    /\ ret.purged >= 1
    /\ total_size > 0
    /\ total_size <= store.max_size[1]
    /\ \E i \in 1..Len(tables[ret.db]) :
          tables[ret.db][i].expire_at = Some(now)

\* C10: a put appends its row as the newest of the table, and no step of the
\* eviction pass that follows removes that row while it is unexpired and its
\* own size is within the bound; a trim step removes the newest row of the
\* table only when it removes every row.
C10_NewestSurvives ==
    [][/\ (pc = "idle" /\ ret'.op = "put" /\ tables' # tables) =>
             LET t2 == tables'[ret'.db]
             IN  /\ t2 # <<>>
                 /\ t2[Len(t2)].key = ret'.pkey
       /\ (pc \in {"evict", "while"} /\ ret.pkey \in KeysOf(tables[ret.db])) =>
             LET t == tables[ret.db]
                 t2 == tables'[ret.db]
                 row == t[CHOOSE i \in 1..Len(t) : t[i].key = ret.pkey]
             IN  (/\ ~IsExpired(row, now)
                  /\ Len(row.key) + Len(row.value) <= store.max_size[1]) =>
                     \E j \in 1..Len(t2) : t2[j] = row
       /\ (pc = "while" /\ tables' # tables) =>
             LET t == tables[ret.db]
                 t2 == tables'[ret.db]
             IN  \/ t2 = <<>>
                 \/ t2[Len(t2)] = t[Len(t)]
      ]_vars

\* A put onto a table of twenty or more rows has completed: its eviction
\* pass trimmed a batch of two and then one more row, and the row just put is
\* still the newest of the table.
C10_Witness ==
    /\ pc = "idle"
    /\ ret.op = "put"
    /\ ret.trimmed >= 3
    /\ Len(tables[ret.db]) >= MaxRows - 3
    /\ tables[ret.db][Len(tables[ret.db])].key = ret.pkey
    /\ ApproxSize(tables[ret.db]) <= store.max_size[1]

\* The table of a database before it exists is empty.
TableOf(ts, db) == IF db \in DOMAIN ts THEN ts[db] ELSE <<>>

\* The position of the row of key in table t, 0 if there is none.
PositionOf(t, key) ==
    IF \E i \in 1..Len(t) : t[i].key = key
    THEN CHOOSE i \in 1..Len(t) : t[i].key = key
    ELSE 0

\* A step is the upsert of a put that changes the table.
IsSet ==
    /\ pc = "idle"
    /\ ret'.op = "put"
    /\ tables' # tables

\* C11 as stated: a Set of a key that already has a row leaves the row at the
\* position in rowid order it had before.
C11_PositionKept ==
    [][(IsSet /\ ret'.replaced # None) =>
          PositionOf(tables'[ret'.db], ret'.pkey)
              = PositionOf(TableOf(tables, ret'.db), ret'.pkey)
      ]_vars

\* C11, amended: every Set, of a new key or of a key that already has a row,
\* leaves the row of its key as the newest of the table (INSERT OR REPLACE
\* deletes the old row and inserts a new one with a new rowid); the other
\* rows keep their order. So the trim step evicts a just-updated key after
\* every row that was in the table when it was updated.
C11_PositionRefreshed ==
    [][IsSet =>
          LET t == TableOf(tables, ret'.db)
              t2 == tables'[ret'.db]
              others == SelectSeq(t, LAMBDA r : r.key # ret'.pkey)
          IN  /\ Len(t2) = Len(others) + 1
              /\ SubSeq(t2, 1, Len(others)) = others
              /\ t2[Len(t2)].key = ret'.pkey
      ]_vars

\* A key that had a row was Set again, the eviction pass of that Set trimmed
\* another row, and the key that was Set is still there.
C11_Witness ==
    /\ pc = "idle"
    /\ ret.op = "put"
    /\ ret.replaced # None
    /\ ret.trimmed >= 1
    /\ PositionOf(tables[ret.db], ret.pkey) >= 1

\* C12 as stated: a MultiDiskStore has no handle when constructed, and at
\* any time two collection names with the same sanitized name share one
\* handle, so that no database has two handles.
C12_OneHandlePerSanitizedName ==
    store.kind = "MultiDiskStore" =>
        /\ ret.op = "none" => DOMAIN store.conn_of = {}
        /\ \A c1, c2 \in DOMAIN store.conn_of :
              sanitize_collection_for_filesystem(c1)
                  = sanitize_collection_for_filesystem(c2)
              => store.conn_of[c1] = store.conn_of[c2]
        /\ \A x, y \in DOMAIN conns :
              conns[x].db = conns[y].db => x = y

\* A step is a delete of either store (the clock does not move in it).
IsDelete ==
    /\ pc = "idle"
    /\ ret'.op = "delete"
    /\ now' = now

\* C13: a delete returns true exactly when a row of its key existed; it
\* removes that row and no other, leaves the table as it was when there was
\* none, never touches another database, and afterwards no row of the key
\* exists (so a get of it returns (None, None) and a second delete false).
C13_Delete ==
    [][IsDelete =>
          LET t == TableOf(tables, ret'.db)
              t2 == tables'[ret'.db]
              at == PositionOf(t, ret'.pkey)
          IN  /\ ret'.out = (at # 0)
              /\ at = 0 => t2 = t
              /\ at # 0 => t2 = SubSeq(t, 1, at - 1) \o SubSeq(t, at + 1, Len(t))
              /\ PositionOf(t2, ret'.pkey) = 0
              /\ \A d \in DOMAIN tables \ {ret'.db} : tables'[d] = tables[d]
      ]_vars

\* A delete returned true and left the other rows of the table in place.
C13_Witness ==
    /\ pc = "idle"
    /\ ret.op = "delete"
    /\ ret.out
    /\ Len(tables[ret.db]) >= 2
    /\ PositionOf(tables[ret.db], ret.pkey) = 0

\* C14 as stated: no teardown and no __del__ of either store raises,
\* whatever came before (teardown, use, no use, a constructor that raised),
\* and once the store is destroyed every connection the store made is closed.
C14_CloseNeverRaises ==
    /\ ret.op \in {"teardown", "del"} => ret.raised = "no"
    /\ store.phase = "dead" =>
          \A c \in DOMAIN conns :
              conns[c].by = "store" => conns[c].state = "closed"

\* The store has no max_size, or one that is not positive.
NoBound == store.max_size = None \/ store.max_size[1] <= 0

\* C15: in a store without a positive max_size no eviction pass ever starts;
\* a put leaves every row of another key as it was, expired or not, and only
\* adds or replaces the row of its own key; a table loses rows only in a
\* delete or a clear.
C15_NoEvictionWithoutBound ==
    [][NoBound =>
          /\ pc = "idle"
          /\ pc' = "idle"
          /\ IsSet =>
                LET t == TableOf(tables, ret'.db)
                    t2 == tables'[ret'.db]
                IN  /\ \A i \in 1..Len(t) :
                          t[i].key # ret'.pkey => \E j \in 1..Len(t2) : t2[j] = t[i]
                    /\ Len(t2) >= Len(t)
          /\ \A db \in DOMAIN tables :
                Len(tables'[db]) < Len(tables[db]) => ret'.op \in {"delete", "clear"}
      ]_vars

\* Without a bound, a put has just completed on a table that holds an
\* expired row of another key and more bytes than any bound in use.
C15_Witness ==
    /\ NoBound
    /\ pc = "idle"
    /\ ret.op = "put"
    /\ last_set.live
    /\ last_set.time = now
    /\ ApproxSize(tables[ret.db]) > 12
    /\ \E i \in 1..Len(tables[ret.db]) :
          /\ IsExpired(tables[ret.db][i], now)
          /\ tables[ret.db][i].key # ret.pkey

\* The rows a MultiDiskStore st shows through a collection name: the table
\* of the collection's connection, or, before it has one, of the database the
\* default factory would open.
VisibleRows(st, cs, ts, collection) ==
    IF collection \in DOMAIN st.conn_of
    THEN ts[cs[st.conn_of[collection]].db]
    ELSE TableOf(ts, Append(st.base_directory,
                            sanitize_collection_for_filesystem(collection)))

\* C16 as stated: no step of a get, put (its eviction pass included) or
\* delete on one collection of a MultiDiskStore changes the rows visible
\* through a different collection name.
C16_CollectionsIndependent ==
    [][(store.kind = "MultiDiskStore" /\ ret'.op \in {"get", "put", "delete"}) =>
          \A other \in RouterCollections \ {ret'.collection} :
              VisibleRows(store', conns', tables', other)
                  = VisibleRows(store, conns, tables, other)
      ]_vars

\* A step is one iteration of the trim loop that deletes rows.
IsTrim ==
    /\ pc = "while"
    /\ tables' # tables

\* C17: an iteration of the trim loop on a table of n rows deletes the
\* min(n, max(1, n div 10)) oldest rows and nothing else: what is left is the
\* table without its first rows, in the same order, so no row that stays is
\* older than a row that went.
C17_TrimOldestBatch ==
    [][IsTrim =>
          LET t == tables[conns[cur].db]
              t2 == tables'[conns[cur].db]
              n == Len(t)
              tenth == IF n \div 10 >= 1 THEN n \div 10 ELSE 1
              batch == IF tenth <= n THEN tenth ELSE n
          IN  /\ Len(t2) = n - batch
              /\ \A i \in 1..Len(t2) : t2[i] = t[i + batch]
              /\ \A d \in DOMAIN tables \ {conns[cur].db} : tables'[d] = tables[d]
      ]_vars

\* The first iteration of a trim on a table of twenty rows or more has
\* deleted a batch of two.
C17_Witness ==
    /\ pc = "while"
    /\ ret.op = "put"
    /\ ret.trimmed = 2
    /\ Len(tables[ret.db]) >= MaxRows - 4
    /\ Len(tables[ret.db]) + 2 >= 20

\* A step is one evaluation of the loop condition of _sqlite_evict (the
\* clock does not move in it).
IsLoopTest == pc = "while" /\ now' = now

\* C18: every eviction pass that starts comes to its end. Each evaluation of
\* the loop condition either leaves the loop, and does so exactly when the
\* size is within the bound or no row is left, or deletes at least one row;
\* with a bound smaller than every entry the pass ends on the empty table.
C18_EvictionTerminates ==
    /\ (pc \in {"evict", "while"}) ~> (pc = "idle")
    /\ [][IsLoopTest =>
             LET t == tables[conns[cur].db]
                 t2 == tables'[conns[cur].db]
                 done == ApproxSize(t) <= store.max_size[1] \/ t = <<>>
             IN  /\ (pc' = "idle") <=> done
                 /\ done => t2 = t
                 /\ ~done => (pc' = "while" /\ Len(t2) < Len(t))
                 /\ (pc' = "idle" /\ \A i \in 1..Len(t) :
                        Len(t[i].key) + Len(t[i].value) > store.max_size[1])
                    => t2 = <<>>
       ]_vars

\* An eviction pass under a bound smaller than the entry just put has ended
\* after trimming, on the empty table.
C18_Witness ==
    /\ pc = "idle"
    /\ ret.op = "put"
    /\ eviction_enabled(store)
    /\ ret.trimmed >= 2
    /\ tables[ret.db] = <<>>

\* C19: when the rows that are unexpired at the time of the eviction pass
\* total no more than max_size, the pass removes the expired rows and
\* nothing else: the purge keeps every unexpired row as it is, and the loop
\* test that follows ends the pass without deleting. The upsert before it
\* changes the row of its own key only. So such a put changes no other key's
\* value, expire_at or presence.
C19_NoTrimWithinBound ==
    [][/\ IsSet =>
             \A i \in 1..Len(TableOf(tables, ret'.db)) :
                 LET row == TableOf(tables, ret'.db)[i]
                 IN  row.key # ret'.pkey =>
                         \E j \in 1..Len(tables'[ret'.db]) : tables'[ret'.db][j] = row
       /\ (pc = "evict" /\ pc' = "while") =>
             LET t == tables[conns[cur].db]
                 t2 == tables'[conns[cur].db]
             IN  \A i \in 1..Len(t) :
                     ~IsExpired(t[i], now) => \E j \in 1..Len(t2) : t2[j] = t[i]
       /\ (IsLoopTest /\ ApproxSize(tables[conns[cur].db]) <= store.max_size[1]) =>
             /\ tables' = tables
             /\ pc' = "idle"
      ]_vars

\* A put under a bound has completed: its pass purged an expired row and
\* trimmed nothing, and the table holds the row just put and another one.
C19_Witness ==
    /\ pc = "idle"
    /\ ret.op = "put"
    /\ eviction_enabled(store)
    /\ ret.purged >= 1
    /\ ret.trimmed = 0
    /\ Len(tables[ret.db]) >= 2
    /\ PositionOf(tables[ret.db], ret.pkey) = Len(tables[ret.db])

\* A step is a get of either store (the clock does not move in it).
IsGet ==
    /\ pc = "idle"
    /\ ret'.op = "get"
    /\ now' = now

\* C20: a get changes no row of any table (a database it opens for the first
\* time starts empty), returns (None, None) when no row has exactly the key
\* it asks for, and otherwise the value and expire_at of that row as stored,
\* also when that expire_at is earlier than the current time.
C20_GetReadOnly ==
    [][IsGet =>
          /\ \A db \in DOMAIN tables' : tables'[db] = TableOf(tables, db)
          /\ DOMAIN tables \subseteq DOMAIN tables'
          /\ LET t == tables'[ret'.db]
                 at == PositionOf(t, ret'.pkey)
             IN  IF at = 0
                 THEN ret'.out = <<None, None>>
                 ELSE ret'.out = <<Some(t[at].value), t[at].expire_at>>
      ]_vars

\* A get has returned the value of a row whose expire_at is in the past, and
\* the row is still in the table.
C20_Witness ==
    /\ pc = "idle"
    /\ ret.op = "get"
    /\ ret.out[1] # None
    /\ ret.out[2] # None
    /\ ret.out[2][1] < now
    /\ PositionOf(tables[ret.db], ret.pkey) >= 1

\* The text s holds the text sub somewhere.
Contains(s, sub) ==
    \E i \in 1..(Len(s) - Len(sub) + 1) : SubSeq(s, i, i + Len(sub) - 1) = sub

\* The text s ends with the character ch.
EndsWith(s, ch) == Len(s) >= 1 /\ s[Len(s)] = ch

\* C21 as stated: any two distinct (collection, key) entries put into a
\* DiskStore whose collection names do not contain "::" are stored under
\* different combined keys, so each has a row of its own.
C21_InjectiveAsStated ==
    \A p, q \in DOMAIN written :
        (/\ p # q
         /\ ~Contains(p[1], <<":", ":">>)
         /\ ~Contains(q[1], <<":", ":">>)) =>
            /\ written[p].pkey # written[q].pkey
            /\ RowsUnder(tables[written[p].db], written[p].pkey)
                  \cap RowsUnder(tables[written[q].db], written[q].pkey) = {}

\* C21, amended: any two distinct (collection, key) entries put into a
\* DiskStore whose collection names neither contain "::" nor end with ":"
\* are stored under different combined keys and share no row of the table.
C21_Injective ==
    \A p, q \in DOMAIN written :
        (/\ p # q
         /\ ~Contains(p[1], <<":", ":">>) /\ ~EndsWith(p[1], ":")
         /\ ~Contains(q[1], <<":", ":">>) /\ ~EndsWith(q[1], ":")) =>
            /\ written[p].pkey # written[q].pkey
            /\ RowsUnder(tables[written[p].db], written[p].pkey)
                  \cap RowsUnder(tables[written[q].db], written[q].pkey) = {}

\* Entries of two different collections without "::" and without a final
\* ":" are stored, one of them under a key that starts with ":", each has
\* its row, and a put has just completed.
C21_Witness ==
    /\ pc = "idle"
    /\ ret.op = "put"
    /\ \E p, q \in DOMAIN written :
          /\ p[1] # q[1]
          /\ ~Contains(p[1], <<":", ":">>) /\ ~EndsWith(p[1], ":")
          /\ ~Contains(q[1], <<":", ":">>) /\ ~EndsWith(q[1], ":")
          /\ p[2][1] = ":"
          /\ Cardinality(RowsUnder(tables[written[p].db], written[p].pkey)) = 1
          /\ Cardinality(RowsUnder(tables[written[q].db], written[q].pkey)) = 1

\* C22: in a DiskStore the eviction pass of a put works on the shared table
\* as a whole. The size it compares with max_size is the sum over the rows
\* of every collection; each trim removes the oldest rows of the table by
\* position, whatever collection they belong to, so every row that stays is
\* newer than every row that went; and the pass ends only with the whole
\* table within the bound or empty.
C22_GlobalBound ==
    [][(store.kind = "DiskStore" /\ pc \in {"evict", "while"} /\ now' = now) =>
          LET t == tables[conns[cur].db]
              t2 == tables'[conns[cur].db]
              gone == Len(t) - Len(t2)
          IN  /\ pc' = "while" => total_size' = ApproxSize(t2)
              /\ IsTrim =>
                    /\ total_size = ApproxSize(t)
                    /\ gone >= 1
                    /\ \A i \in 1..Len(t2) : t2[i] = t[i + gone]
              /\ (pc = "while" /\ pc' = "idle") =>
                    /\ t2 = t
                    /\ ApproxSize(t) <= store.max_size[1] \/ Len(t) = 0
      ]_vars

\* A put into one collection of a DiskStore has just trimmed the row of
\* another collection that had not expired: the clock still reads 0, so no
\* row has expired, and under max_size = 12 no single row exceeds the bound,
\* so the row that went was removed by a put of another entry; rows of two
\* collections remain.
C22_Witness ==
    /\ store.kind = "DiskStore"
    /\ store.max_size = Some(12)
    /\ now = 0
    /\ pc = "idle"
    /\ ret.op = "put"
    /\ ret.purged = 0
    /\ ret.trimmed >= 1
    /\ Len(tables[ret.db]) >= 2
    /\ \E p \in DOMAIN written :
          /\ p[1] # ret.collection
          /\ written[p].evicted
          /\ written[p].pkey \notin KeysOf(tables[ret.db])

====
